---- MODULE Spec2Model ----
(***************************************************************************)
(* A model of flintdata: the one-degree tile grid (flinttile) and the two  *)
(* tiling pipelines (optimize_rasters, optimize_rasterstack).              *)
(*                                                                         *)
(* Coordinates are decimal degrees.  The model holds a coordinate as an    *)
(* integer number of 1/Scale degree, so a degree value d is d * Scale.     *)
(* With Scale = 2 the coordinates drawn are multiples of half a degree:    *)
(* they and their sums with 180.0 and 90.0 are exact in IEEE double, so    *)
(* the arithmetic below is the arithmetic the code performs on them.       *)
(*                                                                         *)
(* The raster engine (rasterio) is outside the repository.  Its calls are  *)
(* modelled by what the commands pass to them and get back: a read of a    *)
(* window returns an array of the window's shape (or of out_shape).        *)
(***************************************************************************)
EXTENDS Integers, Sequences, FiniteSets, TLC

\* ----------------------------------------------------------------- bounds
Scale == 2       \* units per degree of the coordinates drawn
MaxOff == 2      \* edges are drawn within MaxOff units of an anchor
MaxSpan == 4     \* a drawn box spans at most MaxSpan units on each axis
MaxRasters == 2  \* input files of one optimize-rasters run
MaxLayers == 3   \* layers of one raster stack
MaxRuns == 2     \* runs of a pipeline on the same inputs and output folder
MaxBuffer == 3   \* a buffer of feature() is within MaxBuffer units of zero
MaxPrecision == 2  \* a precision of feature() is at most MaxPrecision digits

\* ------------------------------------------------------ program constants
GridCols == 360  \* index(): ytile * 360 + xtile
LngMax == 180    \* ul(): xtile - 180.0; truncation limits of tiles()
LatMax == 90     \* ul(): -(ytile - 90.0)
TileWidth == 4000    \* FLINT_TILE_PROFILE["width"]
TileHeight == 4000   \* FLINT_TILE_PROFILE["height"]
BlockXSize == 400    \* FLINT_TILE_PROFILE["blockxsize"]
BlockYSize == 400    \* FLINT_TILE_PROFILE["blockysize"]
NumPadPixels == 2    \* num_pad_pixels
InMemoryThreshold == 256000000   \* IN_MEMORY_THRESHOLD = 16000 * 16000
BlockCellsPerDegree == 10        \* block size 0.1 degree: int(0.1 / dst_res)

VARIABLES
    op,        \* the flinttile function last called ("idle": none pending)
    box,       \* the argument of tiles(): <<west, south, east, north>>
    yielded,   \* the sequence of Tile that tiles(box) yields
    pt,        \* the argument of tile(): [lng, lat]
    located,   \* the Tile that tile(pt) returns
    tl,        \* the argument of ul() / bounds(): a Tile
    corner,    \* the LngLat that ul(tl) returns
    kw,        \* the keyword arguments of feature(): <<buffer, precision>>
    ret        \* what index(tl), name(tl) or feature(tl) returns

VARIABLES
    mode,      \* "single": optimize_rasters, "stack": optimize_rasterstack
    overwrite, \* the --overwrite flag
    files,     \* raster_files_flat: the source rasters, in processing order
    in_memory_option,  \* single: --in-memory / --no-in-memory, or None
    run,       \* the number of the current run over the same output folder
    pc,        \* the position of the command in its code
    err,       \* the exception that ended the run ("none": no exception)
    ri,        \* single: the index in files of the raster being processed
    tileList,  \* the tiles that tiles(west, south, east, north) yields
    ti,        \* the index in tileList of the current tile
    iter,      \* the number of tile iterations started in this run
    wi,        \* single: the block windows of dst done in this tile
    li,        \* stack: the layers read in this tile
    row,       \* stack: the loop variable row of the sub-block loop
    col,       \* stack: the loop variable col of the sub-block loop
    fileEnv,   \* the handles held by file_env, in order of acquisition
    es,        \* the handles held by the tile's ExitStack es, in order
    released,  \* the handles released by the last exit of es, in order
    used,      \* the handles the last step read or wrote
    work,      \* the pixel operations done so far in this tile iteration
    tilelayers,\* stack: the shapes of the arrays read for this tile
    blk,       \* the .blk files on disk: path -> sequence of written chunks
    tif,       \* the .tif files on disk
    json,      \* the .json sidecars on disk: path -> layerInfo
    blkBefore, \* history: the .blk files on disk when the current run started
    views,     \* single: what the WarpedVRTs of this tile were opened with
    dstData,   \* single: the windows written to dst in this tile, in order
    sidecars   \* the sidecar writes completed for this raster or stack

gridVars == <<op, box, yielded, pt, located, tl, corner, kw, ret>>
cfgVars == <<mode, overwrite, files, in_memory_option>>
ctlVars == <<run, pc, err, ri, tileList, ti, iter, wi, li, row, col>>
resVars == <<fileEnv, es, released, used>>
fsVars == <<blk, tif, json>>
obsVars == <<views, dstData, sidecars>>
pipeVars ==
    <<cfgVars, ctlVars, resVars, work, tilelayers, fsVars, blkBefore, obsVars>>
vars == <<gridVars, pipeVars>>

\* --------------------------------------------------------------- helpers
Max(a, b) == IF a >= b THEN a ELSE b
Min(a, b) == IF a <= b THEN a ELSE b

\* math.floor of a coordinate held in 1/Scale degree, in whole degrees
Floor(u) == u \div Scale

\* ------------------------------------------------------------- flinttile
Tile(x, y) == [x |-> x, y |-> y]
LngLat(lng, lat) == [lng |-> lng, lat |-> lat]
LngLatBbox(w, s, e, n) == [west |-> w, south |-> s, east |-> e, north |-> n]

\* ul(): lon_deg = xtile - 180.0, lat_deg = -(ytile - 90.0)
UlShifted(xtile, ytile) ==
    LngLat((xtile - LngMax) * Scale, (-(ytile - LatMax) - 1) * Scale)
ul(xtile, ytile) ==
    LngLat((xtile - LngMax) * Scale, (-(ytile - LatMax)) * Scale)

\* bounds(): a = ul(x, y), b = ul(x + 1, y + 1); (a[0], b[1], b[0], a[1])
bounds(xtile, ytile) ==
    LET a == ul(xtile, ytile)
        b == ul(xtile + 1, ytile + 1)
    IN  LngLatBbox(a.lng, b.lat, b.lng, a.lat)

\* tile(): xtile = int(floor(lng + 180.0)); ytile = int(floor(lat - 90.0)) * -1
tile(lng, lat) ==
    Tile(Floor(lng + LngMax * Scale), Floor(lat - LatMax * Scale) * (-1))

\* The tiles of one sub-box of tiles(): the clamps and the two nested ranges.
\* The k-th tile yielded is Tile(llx + (k-1) div ny, ury + (k-1) mod ny): the
\* outer loop runs over i in range(llx, ur.x), the inner over j in
\* range(ury, ll.y).
SubBoxTilesClosed(b) ==
    LET w == Max(-LngMax * Scale, b[1])
        s == Max(-LatMax * Scale, b[2])
        e == Min(LngMax * Scale, b[3])
        n == Min(LatMax * Scale, b[4])
        ll == tile(w, s)
        ur == tile(e, n)
        llx == IF ll.x < 0 THEN 0 ELSE ll.x
        ury == IF ur.y < 0 THEN 0 ELSE ur.y
        nx == Max(0, ur.x + 1 - llx)
        ny == Max(0, ll.y + 1 - ury)
    IN  [k \in 1..(nx * ny) |-> Tile(llx + ((k - 1) \div ny), ury + ((k - 1) % ny))]
SubBoxTilesUnclamped(b) ==
    LET ll == tile(b[1], b[2])
        ur == tile(b[3], b[4])
        nx == Max(0, ur.x - ll.x)
        ny == Max(0, ll.y - ur.y)
    IN  [k \in 1..(nx * ny) |-> Tile(ll.x + ((k - 1) \div ny), ur.y + ((k - 1) % ny))]
SubBoxTiles(b) ==
    LET w == Max(-LngMax * Scale, b[1])
        s == Max(-LatMax * Scale, b[2])
        e == Min(LngMax * Scale, b[3])
        n == Min(LatMax * Scale, b[4])
        ll == tile(w, s)
        ur == tile(e, n)
        llx == IF ll.x < 0 THEN 0 ELSE ll.x
        ury == IF ur.y < 0 THEN 0 ELSE ur.y
        nx == Max(0, ur.x - llx)
        ny == Max(0, ll.y - ury)
    IN  [k \in 1..(nx * ny) |-> Tile(llx + ((k - 1) \div ny), ury + ((k - 1) % ny))]

\* The list of sub-boxes tiles() builds: two when west > east, else one.
BboxesSwapped(west, south, east, north) ==
    IF west > east
    THEN << <<west, south, LngMax * Scale, north>>,
            <<-LngMax * Scale, south, east, north>> >>
    ELSE << <<west, south, east, north>> >>
Bboxes(west, south, east, north) ==
    IF west > east
    THEN << <<-LngMax * Scale, south, east, north>>,
            <<west, south, LngMax * Scale, north>> >>
    ELSE << <<west, south, east, north>> >>

\* tiles(): the tiles of every sub-box, in the order of the sub-boxes
tiles(west, south, east, north) ==
    LET bboxes == Bboxes(west, south, east, north)
    IN  IF Len(bboxes) = 2
        THEN SubBoxTiles(bboxes[1]) \o SubBoxTiles(bboxes[2])
        ELSE SubBoxTiles(bboxes[1])

\* int() of a coordinate: truncation toward zero, in whole degrees
Trunc(u) == IF u >= 0 THEN u \div Scale ELSE -((-u) \div Scale)
Abs(i) == IF i < 0 THEN -i ELSE i
\* "{:03d}" of a number below 1000: its three decimal digits
Digits2(i) == <<(i \div 10) % 10, i % 10>>
Digits3(i) == <<i \div 100, (i \div 10) % 10, i % 10>>

\* name(): "{0}{1:03d}_{2}{3:03d}" of the west and north edges of bounds(tile)
name(t) ==
    LET b == bounds(t.x, t.y)
    IN  <<IF b.west < 0 THEN "-" ELSE "", Digits3(Abs(Trunc(b.west))), "_",
          IF b.north < 0 THEN "-" ELSE "", Digits3(Abs(Trunc(b.north)))>>

\* index(): ytile * 360 + xtile
IndexNarrow(t) == t.y * (GridCols - 1) + t.x
index(t) == t.y * GridCols + t.x

\* Python's round() of the fraction p / q (q > 0): to the nearest integer,
\* a tie to the even one
Round(p, q) ==
    LET f == p \div q
        r2 == 2 * (p % q)
    IN  IF r2 < q THEN f
        ELSE IF r2 > q THEN f + 1
        ELSE IF f % 2 = 0 THEN f ELSE f + 1

\* 10 ** n
RECURSIVE Pow10(_)
Pow10(n) == IF n = 0 THEN 1 ELSE 10 * Pow10(n - 1)

\* A coordinate of a feature: num / den of a degree. The four edges of one
\* feature have the same den, so min() and max() compare their num.
Coord(num, den) == [num |-> num, den |-> den]
MinCoord(a, b) == IF a.num <= b.num THEN a ELSE b
MaxCoord(a, b) == IF a.num >= b.num THEN a ELSE b
\* round(v, precision) of v = u / Scale: the nearest multiple of
\* 10 ** -precision
RoundTo(u, precision) ==
    Coord(Round(u * Pow10(precision), Scale), Pow10(precision))

\* An optional argument is <<>> when it is None and <<v>> when it is v.
None == <<>>
Some(v) == <<v>>

\* feature(): bbox = [min(west, east), min(south, north), max(west, east),
\* max(south, north)]
FeatureBboxUnsorted(west, south, east, north) == <<west, south, east, north>>
FeatureBbox(west, south, east, north) ==
    <<MinCoord(west, east), MinCoord(south, north),
      MaxCoord(west, east), MaxCoord(south, north)>>

\* feature(): the bounds of the tile, moved apart by buffer `if buffer`,
\* rounded `if precision and precision >= 0`; the ring and the bbox
feature(t, buffer, precision) ==
    LET b == bounds(t.x, t.y)
        d == IF buffer # None /\ buffer[1] # 0 THEN buffer[1] ELSE 0
        rounds == precision # None /\ precision[1] # 0 /\ precision[1] >= 0
        edge(u) == IF rounds THEN RoundTo(u, precision[1]) ELSE Coord(u, Scale)
        west == edge(b.west - d)
        south == edge(b.south - d)
        east == edge(b.east + d)
        north == edge(b.north + d)
    IN  [ type |-> "Feature",
          bbox |-> FeatureBbox(west, south, east, north),
          id |-> index(t),
          geometry |->
            [ type |-> "Polygon",
              coordinates |-> << << <<west, south>>, <<west, north>>,
                                    <<east, north>>, <<east, south>>,
                                    <<west, south>> >> >> ] ]

\* ---------------------------------------------------------------- inputs
LngAnchors == {-LngMax, 0, LngMax}
LatAnchors == {-LatMax, 0, LatMax}
LngVals == {a * Scale + d : a \in LngAnchors, d \in (-MaxOff)..MaxOff}
LatVals == {a * Scale + d : a \in LatAnchors, d \in (-MaxOff)..MaxOff}
Spans == (-MaxSpan)..MaxSpan

\* the two boxes the documentation names
ExampleBoxes ==
    { <<-10 * Scale, -10 * Scale, 10 * Scale, 10 * Scale>>,
      <<170 * Scale, -10 * Scale, -170 * Scale, 10 * Scale>> }
Boxes ==
    { <<w, s, w + dx, s + dy>> : w \in LngVals, s \in LatVals,
                                  dx \in Spans, dy \in Spans }
    \cup ExampleBoxes

GridTiles == { Tile(x, y) : x \in 0..(GridCols - 1), y \in 0..(2 * LatMax - 1) }

\* the tiles, buffers (in 1/Scale degree) and precisions feature() is given:
\* a buffer of -Scale, one degree inwards, inverts the edges of a tile
FeatureTiles ==
    { Tile(x, y) : x \in {0, 1, LngMax - 1, LngMax, GridCols - 1},
                   y \in {0, 1, LatMax - 1, LatMax, 2 * LatMax - 1} }
Buffers ==
    {None} \cup { Some(d) : d \in (-MaxBuffer)..MaxBuffer }
Precisions == {None} \cup { Some(n) : n \in (-1)..MaxPrecision }

\* ------------------------------------------------------------ grid calls
\* no command is running: the pipeline's state while flinttile is called alone
PipeOff ==
    /\ mode = "off" /\ overwrite = FALSE /\ files = <<>>
    /\ in_memory_option = None
    /\ run = 0 /\ pc = "off" /\ err = "none"
    /\ ri = 0 /\ tileList = <<>> /\ ti = 0 /\ iter = 0
    /\ wi = 0 /\ li = 0 /\ row = 0 /\ col = 0
    /\ fileEnv = <<>> /\ es = <<>> /\ released = <<>> /\ used = {}
    /\ work = [reads |-> 0, dstWrites |-> 0, blkWrites |-> 0, copies |-> 0]
    /\ tilelayers = <<>>
    /\ blk = <<>> /\ tif = {} /\ json = <<>>
    /\ blkBefore = <<>>
    /\ views = <<>> /\ dstData = <<>> /\ sidecars = 0

GridIdle ==
    /\ op = "idle"
    /\ box = <<0, 0, 0, 0>>
    /\ yielded = <<>>
    /\ pt = LngLat(0, 0)
    /\ located = Tile(0, 0)
    /\ tl = Tile(0, 0)
    /\ corner = LngLat(0, 0)
    /\ kw = <<>>
    /\ ret = <<>>

CallTiles ==
    /\ op = "idle"
    /\ \E b \in Boxes :
        /\ box' = b
        /\ yielded' = tiles(b[1], b[2], b[3], b[4])
    /\ op' = "tiles"
    /\ UNCHANGED <<pt, located, tl, corner, kw, ret, pipeVars>>

CallUl ==
    /\ op = "idle"
    /\ \E t \in GridTiles :
        /\ tl' = t
        /\ corner' = ul(t.x, t.y)
    /\ op' = "ul"
    /\ UNCHANGED <<box, yielded, pt, located, kw, ret, pipeVars>>

\* tile() on a drawn point
CallTile ==
    /\ op = "idle"
    /\ \E lng \in LngVals, lat \in LatVals :
        /\ pt' = LngLat(lng, lat)
        /\ located' = tile(lng, lat)
    /\ op' = "tile"
    /\ UNCHANGED <<box, yielded, tl, corner, kw, ret, pipeVars>>

\* tile() on the corner that ul() has just returned
CallTileOfUl ==
    /\ op = "ul"
    /\ pt' = corner
    /\ located' = tile(corner.lng, corner.lat)
    /\ op' = "tile_of_ul"
    /\ UNCHANGED <<box, yielded, tl, corner, kw, ret, pipeVars>>

Return ==
    /\ op # "idle"
    /\ op' = "idle"
    /\ box' = <<0, 0, 0, 0>>
    /\ yielded' = <<>>
    /\ pt' = LngLat(0, 0)
    /\ located' = Tile(0, 0)
    /\ tl' = Tile(0, 0)
    /\ corner' = LngLat(0, 0)
    /\ kw' = <<>>
    /\ ret' = <<>>
    /\ UNCHANGED pipeVars

CallIndex ==
    /\ op = "idle"
    /\ \E t \in GridTiles :
        /\ tl' = t
        /\ ret' = index(t)
    /\ op' = "index"
    /\ UNCHANGED <<box, yielded, pt, located, corner, kw, pipeVars>>

CallName ==
    /\ op = "idle"
    /\ \E t \in GridTiles :
        /\ tl' = t
        /\ ret' = name(t)
    /\ op' = "name"
    /\ UNCHANGED <<box, yielded, pt, located, corner, kw, pipeVars>>

CallFeature ==
    /\ op = "idle"
    /\ \E t \in FeatureTiles, buffer \in Buffers, precision \in Precisions :
        /\ tl' = t
        /\ kw' = <<buffer, precision>>
        /\ ret' = feature(t, buffer, precision)
    /\ op' = "feature"
    /\ UNCHANGED <<box, yielded, pt, located, corner, pipeVars>>

GridNext ==
    \/ CallTiles \/ CallUl \/ CallTile \/ CallTileOfUl
    \/ CallIndex \/ CallName \/ CallFeature \/ Return

GridInit == GridIdle /\ PipeOff

SpecGrid == GridInit /\ [][GridNext]_vars

\* ================================================== names, sizes, inputs
\* A resolution is a fraction num / den of a degree per pixel.
Res(num, den) == [num |-> num, den |-> den]
\* dst_width, dst_height: max(1, round((bounds[2] - bounds[0]) / dst_res)),
\* the bounds of a tile being one degree apart
DstSize(r) == Max(1, Round(r.den, r.num))
\* block_width, block_height: int(0.1 / dst_res)
BlockSize(r) == r.den \div (BlockCellsPerDegree * r.num)

\* the size of a sample of a pixel type, in bytes: bytes(block_data)
BytesPerSample(dtype) ==
    CASE dtype = "uint8" -> 1
      [] dtype = "uint16" -> 2
      [] dtype = "int16" -> 2
      [] dtype = "uint32" -> 4
      [] dtype = "int32" -> 4
      [] dtype = "float32" -> 4
      [] dtype = "float64" -> 8

\* A source raster: the stem of its file name, its bounds, its pixel type and
\* the resolution _calculate_default_transform derives for it.
Raster(path, stem, bnd, rx, ry, dtype) ==
    [path |-> path, name |-> stem, bounds |-> bnd, resx |-> rx, resy |-> ry,
     dtype |-> dtype]
BoundsOf(x, y) ==
    LET b == bounds(x, y) IN <<b.west, b.south, b.east, b.north>>

\* the files optimize-rasters may be given; files 1 and 3 have the same stem
\* in two input directories and cover the same tile
SingleFiles ==
    { Raster(1, "a", BoundsOf(180, 89), Res(1, 4000), Res(1, 4000), "uint8"),
      Raster(2, "b", <<0, 0, 2 * Scale, Scale>>, Res(1, 20), Res(1, 10), "float32"),
      Raster(3, "a", <<Scale \div 2, Scale \div 2, Scale + Scale \div 2,
                       Scale + Scale \div 2>>, Res(1, 4), Res(1, 4), "int16"),
      Raster(4, "c", <<0, 0, Scale \div 2, Scale \div 2>>, Res(1, 4000),
             Res(1, 4000), "uint8"),
      Raster(5, "d", BoundsOf(179, 90), Res(1, 16000), Res(1, 16000), "float64") }
\* the reference rasters optimize-rasterstack may be given; the layers of a
\* stack are co-registered: they have the reference's bounds, size and type
StackFiles ==
    { Raster(1, "s", BoundsOf(180, 89), Res(1, 4000), Res(1, 4000), "uint8"),
      Raster(1, "s", <<0, 0, 2 * Scale, Scale>>, Res(1, 20), Res(1, 10), "float32"),
      Raster(1, "s", BoundsOf(179, 90), Res(1, 25), Res(1, 10), "int16"),
      Raster(1, "s", BoundsOf(180, 89), Res(1, 4), Res(1, 4), "uint8"),
      Raster(1, "s", BoundsOf(180, 89), Res(2, 1), Res(2, 1), "uint8"),
      Raster(1, "s", <<0, 0, Scale \div 2, Scale \div 2>>, Res(1, 4000),
             Res(1, 4000), "uint8") }

\* sorted(set(...)): the chosen files in the order of their paths
SortedByPath(S) ==
    [ i \in 1..Cardinality(S) |->
        CHOOSE f \in S : Cardinality({ g \in S : g.path < f.path }) = i - 1 ]
SingleInputs ==
    { SortedByPath(S) : S \in { S \in SUBSET SingleFiles : Cardinality(S) <= MaxRasters } }
\* sorted(raster_files.items()): layer k of the stack has key k
StackInputs ==
    { [ k \in 1..n |-> [ref EXCEPT !.path = k] ] : ref \in StackFiles, n \in 0..MaxLayers }

\* ------------------------------------------------------------ the output
BlkPath(stem, t) == [folder |-> stem, file |-> <<stem, "_", name(t), ".blk">>]
TifPath(stem, t) == [folder |-> stem, file |-> <<stem, "_", index(t), ".tif">>]
JsonPath(stem) == [folder |-> stem, file |-> <<stem, ".json">>]

\* is_file()
IsFile(fs, path) == path \in DOMAIN fs

\* _writeLayerInfo(): the layerInfo written to <layerName>.json
LayerInfo(src, layerName, nLayers) ==
    [ layer_type |-> IF nLayers # 0 THEN "StackLayer" ELSE "GridLayer",
      layer_prefix |-> layerName,
      layer_data |-> src.dtype,
      cornerCoordinates |-> src.bounds,
      hasNLayers |-> nLayers # 0,
      nLayers |-> nLayers ]

\* open(path, "w") and json.dump / open(path, "wb"): the file is created or
\* truncated, then holds what is written
WriteNothing(fs, path, content) == fs
OpenAppend(fs, path) == IF path \in DOMAIN fs THEN fs ELSE (path :> <<>>) @@ fs
OpenTruncate(fs, path) == (path :> <<>>) @@ fs
WriteFile(fs, path, content) == (path :> content) @@ fs
AppendFile(fs, path, chunk) == [fs EXCEPT ![path] = Append(@, chunk)]

\* ----------------------------------------------------------- the handles
\* A handle: what it is, the raster (or layer) it belongs to, and the tile
\* iteration whose ExitStack holds it (0: file_env holds it).
Handle(kind, r, it) == [kind |-> kind, raster |-> r, iter |-> it]

Range(q) == { q[k] : k \in 1..Len(q) }
Reverse(q) == [ k \in 1..Len(q) |-> q[Len(q) + 1 - k] ]

\* ExitStack.__exit__: the handles are released last acquired first
CloseInOrder(stack) == stack
Close(stack) == Reverse(stack)

NoWork == [reads |-> 0, dstWrites |-> 0, blkWrites |-> 0, copies |-> 0]

BlockWindowsShort ==
    [ k \in 1..((TileWidth \div BlockXSize) * (TileHeight \div BlockYSize) - 1) |->
        [ col_off |-> ((k - 1) % (TileWidth \div BlockXSize)) * BlockXSize,
          row_off |-> ((k - 1) \div (TileWidth \div BlockXSize)) * BlockYSize,
          width |-> BlockXSize, height |-> BlockYSize ] ]
\* dst.block_windows(1): the 400 x 400 blocks of the 4000 x 4000 destination,
\* row by row
BlockWindows ==
    LET nx == (TileWidth + BlockXSize - 1) \div BlockXSize
        ny == (TileHeight + BlockYSize - 1) \div BlockYSize
    IN  [ k \in 1..(nx * ny) |->
            LET i == (k - 1) \div nx
                j == (k - 1) % nx
            IN  [ col_off |-> j * BlockXSize, row_off |-> i * BlockYSize,
                  width |-> Min(BlockXSize, TileWidth - j * BlockXSize),
                  height |-> Min(BlockYSize, TileHeight - i * BlockYSize) ] ]

\* out_window of a block window w: w moved by the padding, of the same size
OutWindowUnshifted(w) == w
OutWindow(w) ==
    [ col_off |-> w.col_off + NumPadPixels, row_off |-> w.row_off + NumPadPixels,
      width |-> w.width, height |-> w.height ]

\* A chunk of a .blk file: the bytes of one array, written by one run. The
\* array is the part a0 .. a0 + n0 - 1 of the first axis and a1 .. a1 + n1 - 1
\* of the second axis of the tile's array, with nl layers; the tile's array
\* starts pad pixels inside the padded view it is read from.
Chunk(r, t, a0, a1, n0, n1, nl, pad) ==
    [run |-> r, tile |-> t, a0 |-> a0, a1 |-> a1, n0 |-> n0, n1 |-> n1,
     nl |-> nl, pad |-> pad]

\* ================================================ the runs of a pipeline
\* the command starts on an empty output folder
PipeStart ==
    /\ \/ /\ mode = "single" /\ files \in SingleInputs
          /\ in_memory_option \in {None, Some(TRUE), Some(FALSE)}
       \/ /\ mode = "stack" /\ files \in StackInputs
          /\ in_memory_option = None
    /\ overwrite \in BOOLEAN
    /\ run = 1 /\ pc = "start" /\ err = "none"
    /\ ri = 0 /\ tileList = <<>> /\ ti = 0 /\ iter = 0
    /\ wi = 0 /\ li = 0 /\ row = 0 /\ col = 0
    /\ fileEnv = <<>> /\ es = <<>> /\ released = <<>> /\ used = {}
    /\ work = NoWork
    /\ tilelayers = <<>>
    /\ blk = <<>> /\ tif = {} /\ json = <<>>
    /\ blkBefore = <<>>
    /\ views = <<>> /\ dstData = <<>> /\ sidecars = 0

\* the exceptions the commands raise themselves; the other exceptions come
\* from the raster engine and the file system
CodeErrors == {"BadParameter", "ValueError"}

\* An exception leaves the with blocks: es, then file_env, release what they
\* hold, and the command ends with the exception.
Raise(exc) ==
    /\ err' = exc
    /\ pc' = "failed"
    /\ released' = Close(es) \o Close(fileEnv)
    /\ es' = <<>>
    /\ fileEnv' = <<>>

\* `if not raster_files_flat: click.echo("No files given"); return`
NoFiles ==
    /\ pc = "start"
    /\ files = <<>>
    /\ pc' = "done"
    /\ used' = {}
    /\ UNCHANGED <<cfgVars, run, err, ri, tileList, ti, iter, wi, li, row, col,
                   fileEnv, es, released, work, tilelayers, fsVars, gridVars, blkBefore, obsVars>>

\* the command is run again, on the same inputs and the same output folder,
\* after a run that ended normally or with an exception of the command
RunAgain ==
    /\ pc = "done" \/ (pc = "failed" /\ err \in CodeErrors)
    /\ run < MaxRuns
    /\ run' = run + 1
    /\ pc' = "start" /\ err' = "none"
    /\ ri' = 0 /\ tileList' = <<>> /\ ti' = 0 /\ iter' = 0
    /\ wi' = 0 /\ li' = 0 /\ row' = 0 /\ col' = 0
    /\ fileEnv' = <<>> /\ es' = <<>> /\ released' = <<>> /\ used' = {}
    /\ work' = NoWork
    /\ tilelayers' = <<>>
    /\ blkBefore' = blk
    /\ views' = <<>> /\ dstData' = <<>> /\ sidecars' = 0
    /\ UNCHANGED <<cfgVars, fsVars, gridVars>>

\* ------------------------------------------------------ optimize_rasters
src == files[ri]
tileOf == tileList[ti]
dst_width == DstSize(src.resx)
dst_height == DstSize(src.resy)
vrt_width == dst_width + 2 * NumPadPixels
vrt_height == dst_height + 2 * NumPadPixels
in_memory == vrt_width * vrt_height < InMemoryThreshold

\* transform.from_bounds(*bounds, width, height) * Affine.translation(tx, ty):
\* the pixel sizes a and e, and the origin (c, f), the place of pixel (0, 0),
\* which is the upper left corner of the bounds moved by tx and ty pixels
Transform(b, width, height, tx, ty) ==
    [ a |-> Coord(b.east - b.west, Scale * width),
      e |-> Coord(b.south - b.north, Scale * height),
      c |-> Coord(b.west * width + tx * (b.east - b.west), Scale * width),
      f |-> Coord(b.north * height + ty * (b.south - b.north), Scale * height) ]
\* what a WarpedVRT is opened with
View(transform, width, height) ==
    [transform |-> transform, width |-> width, height |-> height]
\* vrt_transform: the bounds of the tile, moved out by the padding
vrt_transform(t) ==
    Transform(bounds(t.x, t.y), dst_width, dst_height, -NumPadPixels, -NumPadPixels)
\* dst_transform, as assigned in the tile iteration
dst_transform(t) ==
    Transform(bounds(t.x, t.y), dst_width, dst_height, NumPadPixels, NumPadPixels)

\* the handles of the current tile iteration
SrcHandle == Handle("src", ri, 0)
EsHandleHoisted(kind, it) == Handle(kind, ri, 0)
EsHandleAt(kind, it) == Handle(kind, ri, it)
EsHandle(kind) == EsHandleAt(kind, iter)

\* the checks of the input files, the output folder, outer_env
S_Start ==
    /\ mode = "single"
    /\ pc = "start"
    /\ files # <<>>
    /\ pc' = "next_raster"
    /\ used' = {}
    /\ UNCHANGED <<cfgVars, run, err, ri, tileList, ti, iter, wi, li, row, col,
                   fileEnv, es, released, work, tilelayers, fsVars, gridVars, blkBefore, obsVars>>

\* `for input_file in raster_files_flat:` file_env opens src; the raster
\* folder is made
S_OpenRaster ==
    /\ mode = "single"
    /\ pc = "next_raster"
    /\ ri < Len(files)
    /\ ri' = ri + 1
    /\ fileEnv' = <<Handle("src", ri + 1, 0)>>
    /\ tileList' = <<>> /\ ti' = 0
    /\ sidecars' = 0
    /\ used' = {}
    /\ pc' = "sidecar"
    /\ UNCHANGED <<cfgVars, run, err, iter, wi, li, row, col,
                   es, released, work, tilelayers, fsVars, gridVars, blkBefore,
                   views, dstData>>

\* the loop over the files ends; outer_env exits
S_Finish ==
    /\ mode = "single"
    /\ pc = "next_raster"
    /\ ri = Len(files)
    /\ pc' = "done"
    /\ used' = {}
    /\ UNCHANGED <<cfgVars, run, err, ri, tileList, ti, iter, wi, li, row, col,
                   fileEnv, es, released, work, tilelayers, fsVars, gridVars, blkBefore, obsVars>>

\* _writeLayerInfo(src, raster_name, raster_folder); the resolution; the
\* generator tiles(west, south, east, north) of the raster's bounds
S_WriteLayerInfo ==
    /\ mode = "single"
    /\ pc = "sidecar"
    /\ json' = WriteFile(json, JsonPath(src.name), LayerInfo(src, src.name, 0))
    /\ tileList' = tiles(src.bounds[1], src.bounds[2], src.bounds[3], src.bounds[4])
    /\ ti' = 0
    /\ sidecars' = sidecars + 1
    /\ used' = {SrcHandle}
    /\ pc' = "tiles"
    /\ UNCHANGED <<cfgVars, run, err, ri, iter, wi, li, row, col,
                   fileEnv, es, released, work, tilelayers, blk, tif, gridVars,
                   blkBefore, views, dstData>>

\* `for tile in tiles(...)`, `with ExitStack() as es`: the sizes, and the
\* padded WarpedVRT of src enters es
S_OpenVrt ==
    /\ mode = "single"
    /\ pc = "tiles"
    /\ ti < Len(tileList)
    /\ ti' = ti + 1
    /\ iter' = iter + 1
    /\ es' = <<EsHandleAt("vrt", iter + 1)>>
    /\ views' = ("vrt" :> View(vrt_transform(tileList[ti + 1]), vrt_width, vrt_height))
    /\ released' = <<>>
    /\ used' = {SrcHandle}
    /\ work' = NoWork
    /\ wi' = 0
    /\ pc' = "t_dst"
    /\ UNCHANGED <<cfgVars, run, err, ri, tileList, li, row, col,
                   fileEnv, tilelayers, fsVars, gridVars, blkBefore,
                   dstData, sidecars>>

\* the tiles are exhausted: file_env exits and closes src
S_CloseRaster ==
    /\ mode = "single"
    /\ pc = "tiles"
    /\ ti = Len(tileList)
    /\ released' = Close(fileEnv)
    /\ fileEnv' = <<>>
    /\ used' = {}
    /\ pc' = "next_raster"
    /\ UNCHANGED <<cfgVars, run, err, ri, tileList, ti, iter, wi, li, row, col,
                   es, work, tilelayers, fsVars, gridVars, blkBefore, obsVars>>

\* `in_memory = vrt.width * vrt.height < IN_MEMORY_THRESHOLD`; a MemoryFile,
\* or else a TemporaryRasterFile, enters es
S_OpenDstFile ==
    /\ mode = "single"
    /\ pc = "t_dst"
    /\ es' = Append(es, IF in_memory THEN EsHandle("mem_file")
                                     ELSE EsHandle("temp_raster"))
    /\ used' = {EsHandle("vrt")}
    /\ pc' = "t_dst_open"
    /\ UNCHANGED <<cfgVars, run, err, ri, tileList, ti, iter, wi, li, row, col,
                   fileEnv, released, work, tilelayers, fsVars, gridVars, blkBefore, obsVars>>

\* dst, opened on the MemoryFile or on the temporary file with the profile
\* of vrt updated by FLINT_TILE_PROFILE, enters es
S_OpenDst ==
    /\ mode = "single"
    /\ pc = "t_dst_open"
    /\ es' = Append(es, EsHandle("dst"))
    /\ dstData' = <<>>
    /\ used' = {es[Len(es)]}
    /\ pc' = "t_vrt_dst"
    /\ UNCHANGED <<cfgVars, run, err, ri, tileList, ti, iter, wi, li, row, col,
                   fileEnv, released, work, tilelayers, fsVars, gridVars, blkBefore,
                   views, sidecars>>

\* the WarpedVRT of dst enters es
S_OpenVrtDst ==
    /\ mode = "single"
    /\ pc = "t_vrt_dst"
    /\ es' = Append(es, EsHandle("vrt_dst"))
    /\ views' = ("vrt_dst" :> View(dst_transform(tileOf), vrt_width, vrt_height))
                 @@ views
    /\ used' = {EsHandle("dst")}
    /\ pc' = "t_blk"
    /\ UNCHANGED <<cfgVars, run, err, ri, tileList, ti, iter, wi, li, row, col,
                   fileEnv, released, work, tilelayers, fsVars, gridVars, blkBefore,
                   dstData, sidecars>>

\* `if not overwrite and output_file.is_file(): raise click.BadParameter`
S_Conflict ==
    /\ mode = "single"
    /\ pc = "t_blk"
    /\ ~overwrite /\ IsFile(blk, BlkPath(src.name, tileOf))
    /\ Raise("BadParameter")
    /\ used' = {}
    /\ UNCHANGED <<cfgVars, run, ri, tileList, ti, iter, wi, li, row, col,
                   work, tilelayers, fsVars, gridVars, blkBefore, obsVars>>

\* `blockedFile = es.enter_context(open(output_file, "wb"))`
S_OpenBlk ==
    /\ mode = "single"
    /\ pc = "t_blk"
    /\ ~(~overwrite /\ IsFile(blk, BlkPath(src.name, tileOf)))
    /\ blk' = OpenTruncate(blk, BlkPath(src.name, tileOf))
    /\ es' = Append(es, EsHandle("blk"))
    /\ used' = {EsHandle("blk")}
    /\ wi' = 0
    /\ pc' = "t_blocks"
    /\ UNCHANGED <<cfgVars, run, err, ri, tileList, ti, iter, li, row, col,
                   fileEnv, released, work, tilelayers, tif, json, gridVars, blkBefore, obsVars>>

\* one pass of `for _, w in block_windows`: vrt.read of the window moved by
\* the padding, dst.write at w, blockedFile.write of the bytes read
S_Block ==
    /\ mode = "single"
    /\ pc = "t_blocks"
    /\ wi < Len(BlockWindows)
    /\ LET w == BlockWindows[wi + 1]
           out_window == OutWindow(w)
           block_data == Chunk(run, tileOf, w.row_off, w.col_off,
                               out_window.height, out_window.width, 1,
                               out_window.row_off - w.row_off)
       IN  /\ dstData' = Append(dstData, [window |-> w, data |-> block_data])
           /\ blk' = AppendFile(blk, BlkPath(src.name, tileOf), block_data)
    /\ work' = [work EXCEPT !.reads = @ + 1, !.dstWrites = @ + 1,
                            !.blkWrites = @ + 1]
    /\ used' = {EsHandle("vrt"), SrcHandle, EsHandle("dst"), EsHandle("blk")}
    /\ wi' = wi + 1
    /\ UNCHANGED <<cfgVars, run, pc, err, ri, tileList, ti, iter, li, row, col,
                   fileEnv, es, released, tilelayers, tif, json, gridVars, blkBefore,
                   views, sidecars>>

\* copy(dst, "<raster_name>_<index>.tif", ...) after the last window
S_Copy ==
    /\ mode = "single"
    /\ pc = "t_blocks"
    /\ wi = Len(BlockWindows)
    /\ tif' = tif \cup {TifPath(src.name, tileOf)}
    /\ work' = [work EXCEPT !.copies = @ + 1]
    /\ used' = {EsHandle("dst")}
    /\ pc' = "t_exit"
    /\ UNCHANGED <<cfgVars, run, err, ri, tileList, ti, iter, wi, li, row, col,
                   fileEnv, es, released, tilelayers, blk, json, gridVars, blkBefore, obsVars>>

\* the body of `with ExitStack() as es` ends: es releases its handles
S_ExitTile ==
    /\ mode = "single"
    /\ pc = "t_exit"
    /\ released' = Close(es)
    /\ es' = <<>>
    /\ used' = {}
    /\ pc' = "tiles"
    /\ UNCHANGED <<cfgVars, run, err, ri, tileList, ti, iter, wi, li, row, col,
                   fileEnv, work, tilelayers, fsVars, gridVars, blkBefore, obsVars>>

\* The raster engine or the file system raises in the call the command is
\* at. The exception leaves the with blocks; what the call had done before
\* it raised stays done.
S_Error ==
    /\ mode = "single"
    /\ \/ \* rasterio.open(path): `except OSError: raise IOError`
          /\ pc = "next_raster" /\ ri < Len(files)
          /\ Raise("IOError")
          /\ UNCHANGED <<fsVars, dstData, sidecars>>
       \/ \* _writeLayerInfo: open() raises, or json.dump() after open() has
          \* made the file
          /\ pc = "sidecar"
          /\ Raise("EngineError")
          /\ json' \in {json, OpenTruncate(json, JsonPath(src.name))}
          /\ UNCHANGED <<blk, tif, dstData, sidecars>>
       \/ \* _calculate_default_transform, after the sidecar is written
          /\ pc = "sidecar"
          /\ Raise("EngineError")
          /\ json' = WriteFile(json, JsonPath(src.name), LayerInfo(src, src.name, 0))
          /\ sidecars' = sidecars + 1
          /\ UNCHANGED <<blk, tif, dstData>>
       \/ \* WarpedVRT(src), MemoryFile() or TemporaryRasterFile(),
          \* mem_file.open(), WarpedVRT(dst)
          /\ \/ pc = "tiles" /\ ti < Len(tileList)
             \/ pc = "t_dst"
             \/ pc = "t_dst_open" /\ EsHandle("mem_file") \in Range(es)
             \/ pc = "t_vrt_dst"
          /\ Raise("EngineError")
          /\ UNCHANGED <<fsVars, dstData, sidecars>>
       \/ \* rasterio.open(temp_raster, "w") before it has made the file: then
          \* os.remove in _named_tempfile raises while es releases
          /\ pc = "t_dst_open" /\ EsHandle("temp_raster") \in Range(es)
          /\ Raise("FileNotFoundError")
          /\ UNCHANGED <<fsVars, dstData, sidecars>>
       \/ \* open(output_file, "wb")
          /\ pc = "t_blk"
          /\ ~(~overwrite /\ IsFile(blk, BlkPath(src.name, tileOf)))
          /\ Raise("EngineError")
          /\ UNCHANGED <<fsVars, dstData, sidecars>>
       \/ \* vrt.read or dst.write of a window
          /\ pc = "t_blocks" /\ wi < Len(BlockWindows)
          /\ Raise("EngineError")
          /\ UNCHANGED <<fsVars, dstData, sidecars>>
       \/ \* blockedFile.write, after dst.write of the window
          /\ pc = "t_blocks" /\ wi < Len(BlockWindows)
          /\ Raise("EngineError")
          /\ LET w == BlockWindows[wi + 1]
                 out_window == OutWindow(w)
             IN  dstData' = Append(dstData,
                     [window |-> w,
                      data |-> Chunk(run, tileOf, w.row_off, w.col_off,
                                     out_window.height, out_window.width, 1,
                                     out_window.row_off - w.row_off)])
          /\ UNCHANGED <<fsVars, sidecars>>
       \/ \* copy(dst, output_file), which may have made the .tif file
          /\ pc = "t_blocks" /\ wi = Len(BlockWindows)
          /\ Raise("EngineError")
          /\ tif' \in {tif, tif \cup {TifPath(src.name, tileOf)}}
          /\ UNCHANGED <<blk, json, dstData, sidecars>>
    /\ used' = {}
    /\ UNCHANGED <<cfgVars, run, ri, tileList, ti, iter, wi, li, row, col,
                   work, tilelayers, gridVars, blkBefore, views>>

SingleNext ==
    \/ S_Start \/ S_OpenRaster \/ S_Finish \/ S_WriteLayerInfo \/ S_OpenVrt
    \/ S_CloseRaster \/ S_OpenDstFile \/ S_OpenDst \/ S_OpenVrtDst
    \/ S_Conflict \/ S_OpenBlk \/ S_Block \/ S_Copy \/ S_ExitTile \/ S_Error

\* ------------------------------------------------- optimize_rasterstack
\* raster_name, the -n option
StackName == "stack"
\* the reference raster: raster_files_flat[0]
raster == files[1]
stack_width == DstSize(raster.resx)
stack_height == DstSize(raster.resy)
block_width == BlockSize(raster.resx)
block_height == BlockSize(raster.resy)

LayerHandle(k) == Handle("src", k, 0)
VrtHandle(k) == Handle("vrt", k, iter)

\* the output folder; `with rasterio.open(raster_files_flat[0]) as raster`:
\* the raster folder, _writeLayerInfo(raster, raster_name, raster_folder,
\* len(raster_files_flat)), the bounds, the resolution, total_pixels
K_Reference ==
    /\ mode = "stack"
    /\ pc = "start"
    /\ files # <<>>
    /\ json' = WriteFile(json, JsonPath(StackName),
                         LayerInfo(raster, StackName, Len(files)))
    /\ sidecars' = sidecars + 1
    /\ used' = {Handle("reference", 1, 0)}
    /\ pc' = "open_rasters"
    /\ UNCHANGED <<cfgVars, run, err, ri, tileList, ti, iter, wi, li, row, col,
                   fileEnv, es, released, work, tilelayers, blk, tif, gridVars,
                   blkBefore, views, dstData>>

\* outer_env; one pass of `[file_env.enter_context(rasterio.open(f, 'r'))
\* for f in raster_files_flat]`: file_env opens the next raster of the stack;
\* after the last one, the generator tiles(west, south, east, north) of the
\* reference's bounds
K_OpenRasters ==
    /\ mode = "stack"
    /\ pc = "open_rasters"
    /\ fileEnv' = Append(fileEnv, LayerHandle(Len(fileEnv) + 1))
    /\ IF Len(fileEnv) + 1 = Len(files)
       THEN /\ tileList' = tiles(raster.bounds[1], raster.bounds[2],
                                 raster.bounds[3], raster.bounds[4])
            /\ ti' = 0
            /\ pc' = "tiles"
       ELSE UNCHANGED <<tileList, ti, pc>>
    /\ used' = {}
    /\ UNCHANGED <<cfgVars, run, err, ri, iter, wi, li, row, col,
                   es, released, work, tilelayers, fsVars, gridVars, blkBefore, obsVars>>

\* `for tile in tiles(...)`, `with ExitStack() as es`: the sizes of the tile
K_NextTile ==
    /\ mode = "stack"
    /\ pc = "tiles"
    /\ ti < Len(tileList)
    /\ ti' = ti + 1
    /\ iter' = iter + 1
    /\ es' = <<>>
    /\ released' = <<>>
    /\ used' = {}
    /\ work' = NoWork
    /\ tilelayers' = <<>>
    /\ li' = 0 /\ row' = 0 /\ col' = 0
    /\ pc' = "layers"
    /\ UNCHANGED <<cfgVars, run, err, ri, tileList, wi, fileEnv, fsVars, gridVars, blkBefore, obsVars>>

\* the tiles are exhausted: file_env exits and closes the rasters
K_Finish ==
    /\ mode = "stack"
    /\ pc = "tiles"
    /\ ti = Len(tileList)
    /\ released' = Close(fileEnv)
    /\ fileEnv' = <<>>
    /\ used' = {}
    /\ pc' = "done"
    /\ UNCHANGED <<cfgVars, run, err, ri, tileList, ti, iter, wi, li, row, col,
                   es, work, tilelayers, fsVars, gridVars, blkBefore, obsVars>>

\* a pass of `for layer in rasters` starts: the padded WarpedVRT of the
\* layer enters es
K_OpenLayerVrt ==
    /\ mode = "stack"
    /\ pc = "layers"
    /\ li < Len(files)
    /\ es' = Append(es, VrtHandle(li + 1))
    /\ used' = {LayerHandle(li + 1)}
    /\ pc' = "layer_read"
    /\ UNCHANGED <<cfgVars, run, err, ri, tileList, ti, iter, wi, li, row, col,
                   fileEnv, released, work, tilelayers, fsVars, gridVars, blkBefore, obsVars>>

\* the pass goes on: vrt.read(1, window=out_window, out_shape=(dst_width,
\* dst_height)) is appended to tilelayers
K_ReadLayer ==
    /\ mode = "stack"
    /\ pc = "layer_read"
    /\ li' = li + 1
    /\ tilelayers' = Append(tilelayers, <<stack_width, stack_height>>)
    /\ work' = [work EXCEPT !.reads = @ + 1]
    /\ used' = {VrtHandle(li + 1), LayerHandle(li + 1)}
    /\ pc' = "layers"
    /\ UNCHANGED <<cfgVars, run, err, ri, tileList, ti, iter, wi, row, col,
                   fileEnv, es, released, fsVars, gridVars, blkBefore, obsVars>>

\* `if not overwrite and output_file.is_file(): raise click.BadParameter`
K_Conflict ==
    /\ mode = "stack"
    /\ pc = "layers"
    /\ li = Len(files)
    /\ ~overwrite /\ IsFile(blk, BlkPath(StackName, tileOf))
    /\ Raise("BadParameter")
    /\ used' = {}
    /\ UNCHANGED <<cfgVars, run, ri, tileList, ti, iter, wi, li, row, col,
                   work, tilelayers, fsVars, gridVars, blkBefore, obsVars>>

\* `blocked_file = es.enter_context(open(output_file, "wb"))`;
\* `tile_stack = np.stack(tilelayers, -1)`
K_OpenBlk ==
    /\ mode = "stack"
    /\ pc = "layers"
    /\ li = Len(files)
    /\ ~(~overwrite /\ IsFile(blk, BlkPath(StackName, tileOf)))
    /\ blk' = OpenTruncate(blk, BlkPath(StackName, tileOf))
    /\ es' = Append(es, Handle("blk", 0, iter))
    /\ used' = {Handle("blk", 0, iter)}
    /\ row' = 0 /\ col' = 0
    /\ pc' = "blocks"
    /\ UNCHANGED <<cfgVars, run, err, ri, tileList, ti, iter, wi, li,
                   fileEnv, released, work, tilelayers, tif, json, gridVars, blkBefore, obsVars>>

\* range(0, dst_height, block_height), or range(0, dst_width, block_width)
\* in its first pass, with a step of 0: ValueError
K_ZeroStep ==
    /\ mode = "stack"
    /\ pc = "blocks"
    /\ block_height = 0 \/ block_width = 0
    /\ Raise("ValueError")
    /\ used' = {}
    /\ UNCHANGED <<cfgVars, run, ri, tileList, ti, iter, wi, li, row, col,
                   work, tilelayers, fsVars, gridVars, blkBefore, obsVars>>

\* one pass of the inner loop: block = tile_stack[col:col+block_width,
\* row:row+block_height, :] is written to blocked_file; a slice ends where
\* the axis ends. Then col, and after the last col row, step.
K_Block ==
    /\ mode = "stack"
    /\ pc = "blocks"
    /\ block_height > 0 /\ block_width > 0
    /\ row < stack_height
    /\ LET shape == <<tilelayers[1][1], tilelayers[1][2], Len(tilelayers)>>
           n0 == Max(0, Min(col + block_width, shape[1]) - Min(col, shape[1]))
           n1 == Max(0, Min(row + block_height, shape[2]) - Min(row, shape[2]))
       IN  blk' = AppendFile(blk, BlkPath(StackName, tileOf),
                             Chunk(run, tileOf, col, row, n0, n1, shape[3],
                                   NumPadPixels))
    /\ work' = [work EXCEPT !.blkWrites = @ + 1]
    /\ used' = {Handle("blk", 0, iter)}
    /\ IF col + block_width < stack_width
       THEN col' = col + block_width /\ row' = row
       ELSE col' = 0 /\ row' = row + block_height
    /\ UNCHANGED <<cfgVars, run, pc, err, ri, tileList, ti, iter, wi, li,
                   fileEnv, es, released, tilelayers, tif, json, gridVars, blkBefore, obsVars>>

\* the loops end, and with them the body of `with ExitStack() as es`
K_ExitTile ==
    /\ mode = "stack"
    /\ pc = "blocks"
    /\ block_height > 0 /\ block_width > 0
    /\ row >= stack_height
    /\ released' = Close(es)
    /\ es' = <<>>
    /\ used' = {}
    /\ pc' = "tiles"
    /\ UNCHANGED <<cfgVars, run, err, ri, tileList, ti, iter, wi, li, row, col,
                   fileEnv, work, tilelayers, fsVars, gridVars, blkBefore, obsVars>>

\* The raster engine or the file system raises in the call the command is
\* at. The exception leaves the with blocks; what the call had done before
\* it raised stays done.
K_Error ==
    /\ mode = "stack"
    /\ \/ \* rasterio.open of the reference; _writeLayerInfo: open() raises,
          \* or json.dump() after open() has made the file
          /\ pc = "start" /\ files # <<>>
          /\ Raise("EngineError")
          /\ json' \in {json, OpenTruncate(json, JsonPath(StackName))}
          /\ UNCHANGED <<blk, tif, sidecars>>
       \/ \* _calculate_default_transform, after the sidecar is written
          /\ pc = "start" /\ files # <<>>
          /\ Raise("EngineError")
          /\ json' = WriteFile(json, JsonPath(StackName),
                               LayerInfo(raster, StackName, Len(files)))
          /\ sidecars' = sidecars + 1
          /\ UNCHANGED <<blk, tif>>
       \/ \* rasterio.open(f, 'r'): `except OSError: raise IOError`
          /\ pc = "open_rasters"
          /\ Raise("IOError")
          /\ UNCHANGED <<fsVars, sidecars>>
       \/ \* WarpedVRT(layer), vrt.read, open(output_file, "wb"),
          \* blocked_file.write
          /\ \/ pc = "layers" /\ li < Len(files)
             \/ pc = "layer_read"
             \/ /\ pc = "layers" /\ li = Len(files)
                /\ ~(~overwrite /\ IsFile(blk, BlkPath(StackName, tileOf)))
             \/ /\ pc = "blocks" /\ block_height > 0 /\ block_width > 0
                /\ row < stack_height
          /\ Raise("EngineError")
          /\ UNCHANGED <<fsVars, sidecars>>
    /\ used' = {}
    /\ UNCHANGED <<cfgVars, run, ri, tileList, ti, iter, wi, li, row, col,
                   work, tilelayers, gridVars, blkBefore, views, dstData>>

StackNext ==
    \/ K_Reference \/ K_OpenRasters \/ K_NextTile \/ K_Finish
    \/ K_OpenLayerVrt \/ K_ReadLayer \/ K_Conflict \/ K_OpenBlk \/ K_ZeroStep
    \/ K_Block \/ K_ExitTile \/ K_Error

PipeNext == NoFiles \/ RunAgain \/ SingleNext \/ StackNext

PipeInit == PipeStart /\ GridIdle

SpecPipe == PipeInit /\ [][PipeNext]_vars


\* ======================================================== the tile grid
\* a box of tiles(), read from the state
West == box[1]
South == box[2]
East == box[3]
North == box[4]
Yielded == { yielded[k] : k \in 1..Len(yielded) }
IsDegree(u) == u % Scale = 0

\* west < east and south < north, inside [-180, 180] x [-90, 90]
ProperBox ==
    /\ -LngMax * Scale <= West /\ West < East /\ East <= LngMax * Scale
    /\ -LatMax * Scale <= South /\ South < North /\ North <= LatMax * Scale
IntegerBox == IsDegree(West) /\ IsDegree(South) /\ IsDegree(East) /\ IsDegree(North)

\* the columns / rows of the grid whose bounds lie inside the box
ColsInside ==
    { x \in 0..(GridCols - 1) :
        bounds(x, 0).west >= West /\ bounds(x, 0).east <= East }
RowsInside ==
    { y \in 0..(2 * LatMax - 1) :
        bounds(0, y).south >= South /\ bounds(0, y).north <= North }
\* the columns / rows whose bounds overlap the box in more than an edge
ColsOverlapping ==
    { x \in 0..(GridCols - 1) :
        bounds(x, 0).west < East /\ bounds(x, 0).east > West }
RowsOverlapping ==
    { y \in 0..(2 * LatMax - 1) :
        bounds(0, y).south < North /\ bounds(0, y).north > South }

\* C1: for a box with integer degree edges inside the globe, west < east and
\* south < north, tiles() yields exactly the tiles whose bounds lie inside
\* the box: (east-west)*(north-south) tiles, none twice, the rectangle
\* x in [west+180, east+180), y in [90-north, 90-south), and the bounds of
\* the yielded tiles cover every one-degree cell of the box.
C1_TilesOfIntegerBox ==
    (op = "tiles" /\ ProperBox /\ IntegerBox) =>
        /\ Yielded = { Tile(x, y) : x \in ColsInside, y \in RowsInside }
        /\ Len(yielded) = ((East - West) \div Scale) * ((North - South) \div Scale)
        /\ Cardinality(Yielded) = Len(yielded)
        /\ Yielded =
             { Tile(x, y) :
                 x \in (West \div Scale + LngMax)..(East \div Scale + LngMax - 1),
                 y \in (LatMax - North \div Scale)..(LatMax - South \div Scale - 1) }
        /\ \A cx \in (West \div Scale)..(East \div Scale - 1),
              cy \in (South \div Scale)..(North \div Scale - 1) :
              \E k \in 1..Len(yielded) :
                  bounds(yielded[k].x, yielded[k].y) =
                      LngLatBbox(cx * Scale, cy * Scale,
                                 (cx + 1) * Scale, (cy + 1) * Scale)
\* tiles(-10, -10, 10, 10) has yielded its 400 tiles, x 170..189, y 80..99
C1_Witness ==
    /\ op = "tiles"
    /\ box = <<-10 * Scale, -10 * Scale, 10 * Scale, 10 * Scale>>
    /\ Len(yielded) = 400
    /\ Yielded = { Tile(x, y) : x \in 170..189, y \in 80..99 }

\* C2 as stated: whenever west > east, tiles(west, south, east, north) is
\* tiles(-180, south, east, north) followed by tiles(west, south, 180, north).
C2_WrapIsConcatenation ==
    (op = "tiles" /\ West > East) =>
        yielded = tiles(-LngMax * Scale, South, East, North)
                  \o tiles(West, South, LngMax * Scale, North)
\* C2 amended: when west > east, east >= -180 and west <= 180,
\* tiles(west, south, east, north) is the sequence tiles(-180, south, east,
\* north) followed by the sequence tiles(west, south, 180, north); every tile
\* of the first part comes before every tile of the second.
C2_WrapInRange ==
    (op = "tiles" /\ West > East
        /\ East >= -LngMax * Scale /\ West <= LngMax * Scale) =>
        LET first == tiles(-LngMax * Scale, South, East, North)
            second == tiles(West, South, LngMax * Scale, North)
        IN  /\ yielded = first \o second
            /\ \A k \in 1..Len(yielded) :
                 IF k <= Len(first)
                 THEN yielded[k].x < Floor(East + LngMax * Scale)
                 ELSE yielded[k].x >= Floor(West + LngMax * Scale)
\* tiles(170, -10, -170, 10): first x in 0..9, then x in 350..359, y 80..99
C2_Witness ==
    /\ op = "tiles"
    /\ box = <<170 * Scale, -10 * Scale, -170 * Scale, 10 * Scale>>
    /\ Len(yielded) = 400
    /\ { yielded[k] : k \in 1..200 } = { Tile(x, y) : x \in 0..9, y \in 80..99 }
    /\ { yielded[k] : k \in 201..400 } = { Tile(x, y) : x \in 350..359, y \in 80..99 }

\* C3: for lng in [-180, 180) and lat in (-90, 90], the bounds of
\* tile(lng, lat) contain the point (lng, lat).
C3_TileContainsPoint ==
    (op = "tile"
        /\ -LngMax * Scale <= pt.lng /\ pt.lng < LngMax * Scale
        /\ -LatMax * Scale < pt.lat /\ pt.lat <= LatMax * Scale) =>
        LET b == bounds(located.x, located.y)
        IN  /\ b.west <= pt.lng /\ pt.lng <= b.east
            /\ b.south <= pt.lat /\ pt.lat <= b.north

\* C4: for every Tile T of the grid, tile(ul(T)) = T, where
\* ul(T) = (x - 180, 90 - y).
C4_TileOfUl ==
    op = "tile_of_ul" =>
        /\ corner = LngLat((tl.x - 180) * Scale, (90 - tl.y) * Scale)
        /\ pt = corner
        /\ located = tl
\* the round trip has been made for the last tile of the grid
C4_Witness ==
    op = "tile_of_ul" /\ tl = Tile(359, 179) /\ located = Tile(359, 179)

C13_IndexInjective ==
    op = "index" =>
        /\ ret = tl.y * 360 + tl.x
        /\ ret \in 0..(360 * 180 - 1)
        /\ Tile(ret % 360, ret \div 360) = tl
        /\ \A x \in 0..359 : index(Tile(x, tl.y)) = ret => x = tl.x
        /\ \A y \in 0..179 :
             \A x \in {0, 359} : index(Tile(x, y)) = ret => Tile(x, y) = tl
        /\ tl = Tile(0, 0) => ret = 0
        /\ tl = Tile(1, 0) => ret = 1
        /\ tl = Tile(0, 1) => ret = 360
\* index(Tile(0, 1)) has returned 360, one more than index(Tile(359, 0))
C13_Witness ==
    op = "index" /\ tl = Tile(0, 1) /\ ret = 360 /\ index(Tile(359, 0)) = 359

\* the decimal value of a sequence of three digits
Value3(d) == 100 * d[1] + 10 * d[2] + d[3]
\* C14: name(tile) is the west edge and the north edge of the tile, each as
\* a "-" only when the value is negative followed by the three digits of its
\* absolute value, joined by "_"; name(Tile(179,0)) = "-001_090" and
\* name(Tile(181,0)) = "001_090" differ only in the longitude component.
C14_NameFormat ==
    op = "name" =>
        LET west == tl.x - 180
            north == 90 - tl.y
        IN  /\ Len(ret) = 5
            /\ ret[1] = (IF west < 0 THEN "-" ELSE "")
            /\ ret[2] \in [1..3 -> 0..9] /\ Value3(ret[2]) = Abs(west)
            /\ ret[3] = "_"
            /\ ret[4] = (IF north < 0 THEN "-" ELSE "")
            /\ ret[5] \in [1..3 -> 0..9] /\ Value3(ret[5]) = Abs(north)
            /\ tl = Tile(179, 0) =>
                 /\ ret = <<"-", <<0, 0, 1>>, "_", "", <<0, 9, 0>> >>
                 /\ name(Tile(181, 0)) = <<"", <<0, 0, 1>>, "_", "", <<0, 9, 0>> >>
                 /\ \A k \in 3..5 : name(Tile(181, 0))[k] = ret[k]
\* name(Tile(179, 0)) has returned "-001_090"
C14_Witness ==
    /\ op = "name" /\ tl = Tile(179, 0)
    /\ ret = <<"-", <<0, 0, 1>>, "_", "", <<0, 9, 0>> >>

\* a <= b for two coordinates
CoordLeq(a, b) == a.num * b.den <= b.num * a.den
\* C15: for every tile, buffer and precision, feature() returns a polygon of
\* one ring of exactly 5 points whose first and last points are identical,
\* and a bbox [minx, miny, maxx, maxy] with minx <= maxx and miny <= maxy.
C15_FeatureRing ==
    op = "feature" =>
        /\ Len(ret.geometry.coordinates) = 1
        /\ Len(ret.geometry.coordinates[1]) = 5
        /\ ret.geometry.coordinates[1][1] = ret.geometry.coordinates[1][5]
        /\ \A k \in 1..5 : Len(ret.geometry.coordinates[1][k]) = 2
        /\ Len(ret.bbox) = 4
        /\ CoordLeq(ret.bbox[1], ret.bbox[3])
        /\ CoordLeq(ret.bbox[2], ret.bbox[4])
\* feature() with a buffer of one degree inwards and a precision of 1: the
\* ring's west edge is east of its east edge and its south edge north of its
\* north edge, and the bbox is sorted
C15_Witness ==
    /\ op = "feature" /\ kw = <<Some(-Scale), Some(1)>>
    /\ ~CoordLeq(ret.geometry.coordinates[1][1][1], ret.geometry.coordinates[1][3][1])
    /\ ~CoordLeq(ret.geometry.coordinates[1][1][2], ret.geometry.coordinates[1][3][2])
    /\ ret.bbox[1] = ret.geometry.coordinates[1][3][1]
    /\ ret.bbox[1] # ret.bbox[3]
    /\ ret.bbox[1].den = 10

\* C20: for every box with -180 <= west < east <= 180 and -90 <= south <
\* north <= 90, tiles(west, south, east, north) yields at least one tile.
C20_ProperBoxHasTile ==
    (op = "tiles" /\ ProperBox) => Len(yielded) >= 1

\* the stems of the output paths: the name of a raster of optimize-rasters
\* and the name of the stack; the paths of one stem differ only in the tile
RasterNames == {"a", StackName}
\* the .blk and .tif paths the tile iterations of a raster write, one pair
\* for each tile of the enumeration q
BlkPathsOf(stem, q) == { BlkPath(stem, q[k]) : k \in 1..Len(q) }
TifPathsOf(stem, q) == { TifPath(stem, q[k]) : k \in 1..Len(q) }

\* C21: for every box, with edges out of range, south > north or west > east
\* included, every tile that tiles() yields has 0 <= x < 360 and
\* 0 <= y < 180, and no tile is yielded twice; the .blk paths and the .tif
\* paths of the yielded tiles, for one raster name, are as many as the tiles,
\* so no two tile iterations of one raster write to the same path.
C21_TilesInGridOnce ==
    (op = "tiles") =>
        /\ \A k \in 1..Len(yielded) :
             /\ 0 <= yielded[k].x /\ yielded[k].x < GridCols
             /\ 0 <= yielded[k].y /\ yielded[k].y < 2 * LatMax
        /\ Cardinality(Yielded) = Len(yielded)
        /\ \A stem \in RasterNames :
             /\ Cardinality(BlkPathsOf(stem, yielded)) = Len(yielded)
             /\ Cardinality(TifPathsOf(stem, yielded)) = Len(yielded)
\* a box that wraps and reaches above 90 degrees has yielded tiles of both
\* of its sub-boxes, the first and the last column of the grid among them
C21_Witness ==
    /\ op = "tiles"
    /\ West > East /\ North > LatMax * Scale
    /\ East >= (1 - LngMax) * Scale /\ West < LngMax * Scale
    /\ Tile(0, 0) \in Yielded /\ Tile(GridCols - 1, 0) \in Yielded
    /\ Len(yielded) > 2

\* ======================================================== the pipelines
RECURSIVE SamplesFrom(_, _)
\* the samples of the chunks k .. Len(chunks)
SamplesFrom(chunks, k) ==
    IF k > Len(chunks) THEN 0
    ELSE chunks[k].n0 * chunks[k].n1 * chunks[k].nl + SamplesFrom(chunks, k + 1)
\* the length in bytes of a .blk file that holds samples of the given type
BlkBytes(path, dtype) == SamplesFrom(blk[path], 1) * BytesPerSample(dtype)
RECURSIVE WindowPixelsFrom(_)
WindowPixelsFrom(k) ==
    IF k > Len(BlockWindows) THEN 0
    ELSE BlockWindows[k].width * BlockWindows[k].height + WindowPixelsFrom(k + 1)

\* the command is inside the body of a tile iteration
InTile ==
    \/ /\ mode = "single"
       /\ pc \in {"t_dst", "t_dst_open", "t_vrt_dst", "t_blk", "t_blocks", "t_exit"}
    \/ mode = "stack" /\ pc \in {"layers", "layer_read", "blocks"}
\* the tile iteration has passed the check of its .blk file and opened it
BlkOpened ==
    \/ mode = "single" /\ pc \in {"t_blocks", "t_exit"}
    \/ mode = "stack" /\ pc = "blocks"
CurrentBlk == BlkPath(IF mode = "single" THEN src.name ELSE StackName, tileOf)

\* C6: in both pipelines, when the tile's .blk file exists and overwrite is
\* not requested, the output-conflict error is raised before any pixel work
\* for that tile: no vrt.read and no write to the destination raster or the
\* block file has been made in that tile iteration.
C6_ConflictBeforePixelWork ==
    (err = "BadParameter") => work = NoWork

\* C7: in a second run on the same inputs, without overwrite no .blk file
\* that existed when the run started is opened for writing: it keeps its
\* bytes, and the run does not get past the check of a tile whose file
\* exists; with overwrite, a .blk file the second run has opened holds only
\* the chunks the second run wrote, and after the run every .blk file does.
C7_SecondRun ==
    (run = 2) =>
        /\ ~overwrite =>
             /\ \A p \in DOMAIN blkBefore : p \in DOMAIN blk /\ blk[p] = blkBefore[p]
             /\ BlkOpened => CurrentBlk \notin DOMAIN blkBefore
             /\ pc = "done" => DOMAIN blk = DOMAIN blkBefore
        /\ overwrite =>
             /\ BlkOpened =>
                  /\ \A k \in 1..Len(blk[CurrentBlk]) : blk[CurrentBlk][k].run = 2
                  /\ Len(blk[CurrentBlk]) = work.blkWrites
             /\ pc = "done" =>
                  \A p \in DOMAIN blk : \A k \in 1..Len(blk[p]) : blk[p][k].run = 2
\* the second run without overwrite has failed at a tile whose file existed,
\* and the file still holds the 100 chunks of the first run
C7_Witness ==
    /\ run = 2 /\ ~overwrite /\ err = "BadParameter"
    /\ CurrentBlk \in DOMAIN blkBefore
    /\ Len(blk[CurrentBlk]) = 100
    /\ \A k \in 1..Len(blk[CurrentBlk]) : blk[CurrentBlk][k].run = 1

\* the tile whose upper left corner is the raster's north-west corner
CornerTile(f) == Tile(Trunc(f.bounds[1]) + LngMax, LatMax - Trunc(f.bounds[4]))
\* the raster's bounds are the bounds of one tile of the grid
CoversOneTile(f) ==
    /\ CornerTile(f) \in GridTiles
    /\ f.bounds = BoundsOf(CornerTile(f).x, CornerTile(f).y)

\* C8: for a source raster whose bounds are bounds(T) of one tile T, a run of
\* the single-source pipeline that ends without error has made exactly one
\* tile iteration, for T, and the output holds exactly one .blk file, one
\* .tif file and one .json sidecar, with layer_type "GridLayer" and no
\* nLayers; the .blk file is width x height x bytesPerSample of the tile
\* raster long, the sum of window width x window height x bytesPerSample
\* over the block windows.
C8_OneTileRaster ==
    (mode = "single" /\ Len(files) = 1 /\ pc = "done" /\ CoversOneTile(files[1])) =>
        LET f == files[1]
            T == CornerTile(f)
        IN  /\ iter = 1
            /\ tileList = <<T>>
            /\ DOMAIN blk = {BlkPath(f.name, T)}
            /\ tif = {TifPath(f.name, T)}
            /\ DOMAIN json = {JsonPath(f.name)}
            /\ json[JsonPath(f.name)].layer_type = "GridLayer"
            /\ ~json[JsonPath(f.name)].hasNLayers
            /\ BlkBytes(BlkPath(f.name, T), f.dtype)
                 = TileWidth * TileHeight * BytesPerSample(f.dtype)
            /\ BlkBytes(BlkPath(f.name, T), f.dtype)
                 = WindowPixelsFrom(1) * BytesPerSample(f.dtype)
\* the run on the float64 raster that covers Tile(179, 90) is done: 100
\* chunks, 128 000 000 bytes
C8_Witness ==
    /\ mode = "single" /\ Len(files) = 1 /\ pc = "done" /\ run = 1
    /\ CoversOneTile(files[1])
    /\ files[1].dtype = "float64"
    /\ tileList = <<Tile(179, 90)>>
    /\ Len(blk[BlkPath(files[1].name, Tile(179, 90))]) = 100
    /\ BlkBytes(BlkPath(files[1].name, Tile(179, 90)), "float64") = 128000000

\* the chunks of a file are disjoint parts of the w x h array of a tile and
\* together hold each of its cells
EveryCellOnce(chunks, w, h) ==
    /\ \A k \in 1..Len(chunks) :
         /\ 0 <= chunks[k].a0 /\ chunks[k].a0 + chunks[k].n0 <= w
         /\ 0 <= chunks[k].a1 /\ chunks[k].a1 + chunks[k].n1 <= h
    /\ \A k, m \in 1..Len(chunks) :
         k < m =>
           \/ chunks[k].a0 + chunks[k].n0 <= chunks[m].a0
           \/ chunks[m].a0 + chunks[m].n0 <= chunks[k].a0
           \/ chunks[k].a1 + chunks[k].n1 <= chunks[m].a1
           \/ chunks[m].a1 + chunks[m].n1 <= chunks[k].a1
    /\ SamplesFrom(chunks, 1) = w * h * (IF Len(chunks) = 0 THEN 0 ELSE chunks[1].nl)

\* the tile is at least one pixel wide and high at the stack's resolution
TileHasPixel == raster.resx.num <= raster.resx.den /\ raster.resy.num <= raster.resy.den

\* C9: for a stack of L >= 1 rasters, at every resolution at which a tile is
\* at least one pixel wide and high, the first run of the stack pipeline, when
\* no call of the raster engine or the file system raises, ends without error, with one .blk file per enumerated tile, dst_width x
\* dst_height x bytesPerSample x L bytes long and holding every cell of every
\* layer once, and a sidecar with layer_type "StackLayer" and nLayers = L.
C9_StackBlkLength ==
    (mode = "stack" /\ files # <<>> /\ run = 1 /\ pc \in {"done", "failed"}
        /\ err \in {"none"} \cup CodeErrors /\ TileHasPixel) =>
        /\ pc = "done"
        /\ \A k \in 1..Len(tileList) :
             LET p == BlkPath(StackName, tileList[k])
             IN  /\ p \in DOMAIN blk
                 /\ BlkBytes(p, raster.dtype)
                      = stack_width * stack_height * BytesPerSample(raster.dtype)
                          * Len(files)
                 /\ EveryCellOnce(blk[p], stack_width, stack_height)
        /\ Cardinality(DOMAIN blk) = Len(tileList)
        /\ json[JsonPath(StackName)].layer_type = "StackLayer"
        /\ json[JsonPath(StackName)].nLayers = Len(files)

\* a source raster handle, held by file_env
IsSource(h) == h.kind = "src"

\* C10 as stated: every handle that is read or written during a tile
\* iteration was acquired inside that same tile iteration.
C10_NoHandleShared ==
    InTile => \A h \in used : h.iter = iter
\* C10 amended: every warped-view, destination, temporary-file and block-file
\* handle that is read or written during a tile iteration was acquired inside
\* that same tile iteration and es holds no handle of another iteration; the
\* source raster handles are acquired once, by file_env, and read in every
\* tile iteration; in the single-source pipeline file_env holds the handle of
\* the raster being processed and no handle of another raster.
C10_OnlySourceShared ==
    /\ InTile =>
         /\ \A h \in used :
              IF IsSource(h)
              THEN h \in Range(fileEnv) /\ h.iter = 0
              ELSE h \in Range(es) /\ h.iter = iter
         /\ \A h \in Range(es) : h.iter = iter /\ ~IsSource(h)
    /\ mode = "single" => \A h \in Range(fileEnv) : h.raster = ri /\ IsSource(h)
\* in the second tile iteration of a raster, a block is read through the
\* view of this iteration from the source handle the first iteration used
C10_Witness ==
    /\ mode = "single" /\ pc = "t_blocks" /\ ti = 2 /\ wi > 0
    /\ SrcHandle \in used /\ SrcHandle \in Range(fileEnv)
    /\ EsHandle("vrt") \in used /\ EsHandle("vrt") \in Range(es)

\* the kinds of a sequence of handles
Kinds(q) == [ k \in 1..Len(q) |-> q[k].kind ]
\* C11: on every exit of a tile iteration, normal or by an exception at any
\* step, every handle acquired in that iteration is released, in the reverse
\* of the order of acquisition, before the next tile iteration starts or the
\* exception reaches the caller; the handles of file_env are released after
\* them, in reverse order too; and when the run has ended, with or without an
\* exception, no handle is held. A step either acquires one handle, on top
\* of those held, or releases all that are held.
C11_ReleasedOnEveryExit ==
    [][ /\ es' # es =>
             \/ es' # <<>> /\ SubSeq(es', 1, Len(es') - 1) = es
             \/ es' = <<>> /\ SubSeq(released', 1, Len(es)) = Reverse(es)
        /\ fileEnv' # fileEnv =>
             \/ fileEnv' # <<>> /\ SubSeq(fileEnv', 1, Len(fileEnv') - 1) = fileEnv
             \/ /\ fileEnv' = <<>> /\ es' = <<>>
                /\ released' = Reverse(es) \o Reverse(fileEnv)
        /\ iter' # iter => es = <<>>
        /\ pc' \in {"tiles", "next_raster"} => es' = <<>>
        /\ pc' \in {"done", "failed"} => es' = <<>> /\ fileEnv' = <<>>
        /\ (pc' = "failed" /\ pc # "failed") =>
             released' = Reverse(es) \o Reverse(fileEnv)
      ]_vars
\* blockedFile.write has raised in the second tile iteration of a raster: the
\* block file, the view of dst, dst, the MemoryFile, the padded view and
\* then the source raster have been released
C11_Witness ==
    /\ mode = "single" /\ pc = "failed" /\ err = "EngineError" /\ ti = 2
    /\ Kinds(released) = <<"blk", "vrt_dst", "dst", "mem_file", "vrt", "src">>
    /\ Len(dstData) = Len(blk[CurrentBlk]) + 1
    /\ \A k \in 1..5 : released[k].iter = iter
    /\ es = <<>> /\ fileEnv = <<>>

\* C12: in the single-source pipeline the in-memory option is an override:
\* with --in-memory the destination raster of every tile is opened in
\* memory, with --no-in-memory on a temporary file, and only when neither is
\* given is it in memory exactly when padded width x padded height is below
\* IN_MEMORY_THRESHOLD = 16000 * 16000.
C12_InMemoryOverride ==
    (mode = "single" /\ pc = "t_dst_open") =>
        LET inMemory == EsHandle("mem_file") \in Range(es)
            onDisk == EsHandle("temp_raster") \in Range(es)
        IN  /\ inMemory # onDisk
            /\ in_memory_option = Some(TRUE) => inMemory
            /\ in_memory_option = Some(FALSE) => onDisk
            /\ in_memory_option = None =>
                 (inMemory <=> vrt_width * vrt_height < 16000 * 16000)

\* two coordinates are the same number
CoordEq(a, b) == a.num * b.den = b.num * a.den
\* C16: in each tile iteration of the single-source pipeline the second
\* warped view, the one of the destination raster, is opened with the
\* un-padded size and transform: its width and height are dst_width and
\* dst_height, and its origin is the upper left corner of the tile.
C16_SecondViewUnpadded ==
    (mode = "single" /\ pc \in {"t_blk", "t_blocks", "t_exit"}) =>
        LET v == views["vrt_dst"]
            b == bounds(tileOf.x, tileOf.y)
        IN  /\ v.width = dst_width
            /\ v.height = dst_height
            /\ CoordEq(v.transform.c, Coord(b.west, Scale))
            /\ CoordEq(v.transform.f, Coord(b.north, Scale))

\* C17: in the stack pipeline the sub-blocks of a tile are appended to the
\* block file in row-major order over the stacked array of axes (row,
\* column, layer): the offset on the row axis, axis 0, is the slowest, the
\* offset on the column axis, axis 1, steps inside it, and the sub-blocks
\* together hold every cell of the tile once.
C17_RowMajorSubBlocks ==
    (mode = "stack" /\ pc = "tiles" /\ ti > 0) =>
        LET chunks == blk[CurrentBlk]
        IN  /\ \A k \in 1..(Len(chunks) - 1) :
                 \/ chunks[k].a0 < chunks[k + 1].a0
                 \/ /\ chunks[k].a0 = chunks[k + 1].a0
                    /\ chunks[k].a1 < chunks[k + 1].a1
            /\ EveryCellOnce(chunks, stack_width, stack_height)

\* C18: in each tile iteration of the single-source pipeline the block
\* windows of the destination raster are visited once each, in the engine's
\* order; for the window w the pixels read are those of the padded view at w
\* moved by (+2, +2), of the width and height of w; they are written to the
\* destination at w and then appended to the .blk file, which is the
\* concatenation of the blocks in that order; the copy to the .tif file is
\* made only after the last block is written. Inside the loop the block just
\* written is looked at, and after the loop, or when a call has raised, all
\* the blocks written.
C18_BlocksInOrder ==
    (mode = "single"
        /\ \/ pc \in {"t_blocks", "t_exit"}
           \/ pc = "failed" /\ "blk" \in Range(Kinds(released))) =>
        LET chunks == blk[CurrentBlk]
        IN  /\ Len(chunks) = wi /\ work.blkWrites = wi
            /\ Len(dstData) = wi \/ (pc = "failed" /\ Len(dstData) = wi + 1)
            /\ \A k \in (IF pc = "t_blocks" THEN {Len(dstData)} \ {0}
                                          ELSE 1..Len(dstData)) :
                 LET w == BlockWindows[k]
                     d == dstData[k].data
                 IN  /\ dstData[k].window = w
                     /\ d.tile = tileOf /\ d.nl = 1
                     /\ d.a0 + d.pad = w.row_off + 2
                     /\ d.a1 + d.pad = w.col_off + 2
                     /\ d.a0 = w.row_off /\ d.a1 = w.col_off
                     /\ d.n0 = w.height /\ d.n1 = w.width
                     /\ k <= wi => chunks[k] = d
            /\ pc = "t_exit" =>
                 \A k, m \in 1..Len(dstData) :
                     k < m => dstData[k].window # dstData[m].window
            /\ work.copies > 0 => wi = Len(BlockWindows)
            /\ pc = "t_exit" =>
                 /\ work.copies = 1
                 /\ TifPath(src.name, tileOf) \in tif
\* the copy is made: the .blk file holds the 100 blocks in the order of the
\* block windows, the last one read at (3602, 3602) of the padded view
C18_Witness ==
    /\ mode = "single" /\ pc = "t_exit" /\ wi = 100
    /\ Len(blk[CurrentBlk]) = 100
    /\ blk[CurrentBlk][100].a0 + blk[CurrentBlk][100].pad = 3602
    /\ blk[CurrentBlk][100].a1 + blk[CurrentBlk][100].pad = 3602
    /\ dstData[100].window.col_off = 3600
    /\ work.copies = 1

\* C19: the sidecar is written exactly once per source raster (single-source
\* pipeline) or once per stack (stack pipeline), and the write is complete
\* before the first tile iteration of that raster or stack starts; no tile
\* iteration happens for a raster whose sidecar write failed.
C19_SidecarOnceBeforeTiles ==
    /\ sidecars <= 1
    /\ mode = "single" =>
         /\ (InTile \/ pc = "tiles") =>
              /\ sidecars = 1
              /\ JsonPath(src.name) \in DOMAIN json
              /\ json[JsonPath(src.name)].layer_prefix = src.name
              /\ json[JsonPath(src.name)].layer_type = "GridLayer"
              /\ json[JsonPath(src.name)].cornerCoordinates = src.bounds
         /\ (pc = "next_raster" /\ ri > 0) => sidecars = 1
         /\ (ri > 0 /\ sidecars = 0) => ti = 0 /\ tileList = <<>>
    /\ mode = "stack" =>
         /\ (InTile \/ pc \in {"open_rasters", "tiles"}
                \/ (pc = "done" /\ files # <<>>)) =>
              /\ sidecars = 1
              /\ JsonPath(StackName) \in DOMAIN json
              /\ json[JsonPath(StackName)].layer_type = "StackLayer"
              /\ json[JsonPath(StackName)].nLayers = Len(files)
         /\ sidecars = 0 => iter = 0 /\ ti = 0 /\ tileList = <<>>
\* the sidecar write of the second raster has failed: the tile iterations of
\* the run are those of the first raster
C19_Witness ==
    /\ mode = "single" /\ pc = "failed" /\ err = "EngineError"
    /\ ri = 2 /\ sidecars = 0
    /\ ti = 0 /\ iter = 2
    /\ JsonPath(files[1].name) \in DOMAIN json

====
